---- MODULE Spec2Model ----
(***************************************************************************)
(* Model of src/stores/redis.rs: the redis-backed cache store RedisCache.  *)
(*                                                                         *)
(* The redis server is modelled by the four commands the store sends       *)
(* (GET, SETEX, DEL, EXPIRE) acting on a map from key strings to text      *)
(* with a remaining lifetime in seconds.  A handler of the store builds a  *)
(* pipeline of commands, sends it over a pooled connection and decodes     *)
(* the reply of the leading GET.                                           *)
(*                                                                         *)
(* Spec      one caller: every handler runs as one step; the clock ticks   *)
(*           in whole seconds.                                             *)
(* ConcSpec  several threads share the adapter: the server executes the    *)
(*           commands of the pipelines one at a time, in any order that    *)
(*           keeps each pipeline's own order (redis::pipe() is built       *)
(*           without .atomic(), so no MULTI/EXEC brackets the batch).      *)
(* PoolSpec  more threads than the pool has connections call cache_get;    *)
(*           PoolLive adds the pool's connection timeout as fairness.      *)
(* PairSpec  the same calls made on a RedisCache and an AsyncRedisCache,   *)
(*           each with a server of its own.                                *)
(* KeySpec   two RedisCaches with the prefixes "t" and "t1" on one server. *)
(***************************************************************************)
EXTENDS Integers, Sequences, FiniteSets, TLC

\* ------------------------------------------------------------- bounds
\* TTLs range over 0..MaxSeconds (u64 in the code; 0 is a legal u64).
MaxSeconds == 2
\* Threads sharing the adapter in ConcSpec.
NumThreads == 2
\* Calls each thread makes in ConcSpec.
MaxCalls == 2

Seconds == 0..MaxSeconds
\* K is any Display type; the keys are the u32 values 1 and 2.
Keys == {1, 2}
Threads == 1..NumThreads

\* ------------------------------------------------------------- values
\* V is any Serialize + DeserializeOwned type.  Four representatives:
\*   "n100", "n200"  numbers that serde_json writes and reads back;
\*   "nan"           a float NaN: serde_json writes it as null, and null
\*                   does not read back as a number;
\*   "unser"         a value whose Serialize implementation fails (e.g. a
\*                   map whose keys are not strings).
Values == {"n100", "n200", "nan", "unser"}
None == "None"

\* Result<Option<V>, RedisCacheError>
Ok(x) == [ok |-> TRUE, val |-> x, err |-> "", raw |-> <<>>]
Err(kind, raw) == [ok |-> FALSE, val |-> None, err |-> kind, raw |-> raw]

\* ------------------------------------------------------------- keys
PREFIX_NAMESPACE == <<"cached-redis-store">>
CallerPrefix == <<"t">>

generate_prefix(p) == PREFIX_NAMESPACE \o <<":">> \o p

Digit(d) == <<"0", "1", "2", "3", "4", "5", "6", "7", "8", "9">>[d + 1]

\* Display for u32: the decimal digits, most significant first.
RECURSIVE Display(_)
Display(n) == IF n < 10 THEN <<Digit(n)>> ELSE Display(n \div 10) \o <<Digit(n % 10)>>

prefix == generate_prefix(CallerPrefix)

\* A delimiter put between the prefix and the key.
format_delimited(p, key) == p \o <<":">> \o Display(key)

\* format!("{}{}", self.prefix, key): the prefix, then the key's Display
\* form, nothing between them.
format(p, key) == p \o Display(key)

generate_key(key) == format(prefix, key)

NKeys == {generate_key(k) : k \in Keys}

\* ------------------------------------------------------------- envelope
\* serde_json::to_string of the bare value.
ValueJson(v) ==
    CASE v = "n100" -> [ok |-> TRUE, text |-> <<"100">>]
      [] v = "n200" -> [ok |-> TRUE, text |-> <<"200">>]
      [] v = "nan" -> [ok |-> TRUE, text |-> <<"null">>]
      [] OTHER -> [ok |-> FALSE, text |-> <<>>]

\* The bare value written in place of the envelope.
to_string_bare(v) == ValueJson(v)

\* serde_json::to_string(&CachedRedisValue { value: val })
to_string(v) ==
    LET j == ValueJson(v)
    IN  IF j.ok
        THEN [ok |-> TRUE, text |-> <<"{", "value", ":">> \o j.text \o <<"}">>]
        ELSE [ok |-> FALSE, text |-> <<>>]

\* serde_json::from_str of the bare value.
JsonValue(tok) ==
    CASE tok = "100" -> [ok |-> TRUE, value |-> "n100"]
      [] tok = "200" -> [ok |-> TRUE, value |-> "n200"]
      [] OTHER -> [ok |-> FALSE, value |-> None]

\* serde_json::from_str::<CachedRedisValue<V>>(&s)
from_str(s) ==
    IF /\ Len(s) = 5
       /\ s[1] = "{"
       /\ s[2] = "value"
       /\ s[3] = ":"
       /\ s[5] = "}"
    THEN JsonValue(s[4])
    ELSE [ok |-> FALSE, value |-> None]

\* ------------------------------------------------------------- server
\* An entry of the server: the text and the seconds it has left to live.
\* ttl = 0 stands for "no such key".
NoEntry == [text |-> <<>>, ttl |-> 0]
Present(e) == e.ttl > 0

Min(a, b) == IF a < b THEN a ELSE b

\* Replies of the server.
Nil == [kind |-> "nil", text |-> <<>>, n |-> 0]
Bulk(t) == [kind |-> "bulk", text |-> t, n |-> 0]
Status == [kind |-> "ok", text |-> <<>>, n |-> 0]
Count(n) == [kind |-> "int", text |-> <<>>, n |-> n]
ErrorReply == [kind |-> "error", text |-> <<>>, n |-> 0]

\* Commands, as the pipeline holds them.
Get(k) == [cmd |-> "GET", key |-> k, text |-> <<>>, secs |-> 0, ignore |-> FALSE]
SetEx(k, t, s) == [cmd |-> "SETEX", key |-> k, text |-> t, secs |-> s, ignore |-> TRUE]
Del(k) == [cmd |-> "DEL", key |-> k, text |-> <<>>, secs |-> 0, ignore |-> TRUE]
Expire(k, s) == [cmd |-> "EXPIRE", key |-> k, text |-> <<>>, secs |-> s, ignore |-> TRUE]

\* The server executes one command on its map st.
\*   GET     replies the text, or nil
\*   SETEX   stores the text with the lifetime; a lifetime of 0 is refused
\*           with an error reply and stores nothing
\*   DEL     removes the key and replies how many keys it removed
\*   EXPIRE  sets the lifetime of a key that exists and replies 1; replies
\*           0 when there is no such key; a lifetime of 0 removes the key
Exec(c, st) ==
    LET k == c.key
        e == st[k]
    IN  CASE c.cmd = "GET" ->
               [st |-> st, reply |-> IF Present(e) THEN Bulk(e.text) ELSE Nil]
          [] c.cmd = "SETEX" ->
               IF c.secs = 0
               THEN [st |-> st, reply |-> ErrorReply]
               ELSE [st |-> [st EXCEPT ![k] = [text |-> c.text, ttl |-> c.secs]],
                     reply |-> Status]
          [] c.cmd = "DEL" ->
               [st |-> [st EXCEPT ![k] = NoEntry],
                reply |-> Count(IF Present(e) THEN 1 ELSE 0)]
          [] c.cmd = "EXPIRE" ->
               IF ~Present(e)
               THEN [st |-> st, reply |-> Count(0)]
               ELSE IF c.secs = 0
               THEN [st |-> [st EXCEPT ![k] = NoEntry], reply |-> Count(1)]
               ELSE [st |-> [st EXCEPT ![k].ttl = c.secs], reply |-> Count(1)]

\* The first n commands of a pipeline, executed in order.
Reply(x, replies) == [st |-> x.st, replies |-> Append(replies, x.reply)]

Step(c, r) == Reply(Exec(c, r.st), r.replies)

RECURSIVE Run(_, _, _)
Run(cmds, st, n) ==
    IF n = 0
    THEN [st |-> st, replies |-> <<>>]
    ELSE Step(cmds[n], Run(cmds, st, n - 1))

\* One second passes: every entry has a second less to live, and an entry
\* with none left is gone.
Expired(st) ==
    [k \in DOMAIN st |->
        IF st[k].ttl <= 1 THEN NoEntry ELSE [st[k] EXCEPT !.ttl = @ - 1]]

\* ------------------------------------------------------------- state
VARIABLES
    seconds,      \* RedisCache.seconds
    refresh,      \* RedisCache.refresh
    store,        \* the server: key string -> entry
    audit,        \* book-keeping per key string (see NoAudit), kept by Spec
    configured,   \* the TTL most recently given to the builder or to cache_set_lifespan
    last,         \* the call that has just returned, with its arguments and result
    conns,        \* ConcSpec, PoolSpec: the threads holding a pooled connection
    calls,        \* ConcSpec, PoolSpec: each thread's call in flight
    mirror        \* PairSpec: an AsyncRedisCache and the server behind it

vars == <<seconds, refresh, store, audit, configured, last, conns, calls, mirror>>

\* ------------------------------------------------------------- handlers
\* What befalls a call outside the adapter's control:
\*   pool   pool.get() fails (r2d2::Error)
\*   conn   the connection fails during pipe.query (redis::RedisError),
\*          after the server has executed the first n commands of the
\*          pipeline, or all of them when it holds fewer: n = 0 before any
\*          command, n = 2 when only the replies are lost (a failure after
\*          the leading GET alone leaves the same map as n = 0)
\*   none   nothing fails
NoFault == [kind |-> "none", n |-> 0]
PoolFault == [kind |-> "pool", n |-> 0]
ConnFault(n) == [kind |-> "conn", n |-> n]
Faults == {NoFault, PoolFault} \cup {ConnFault(0), ConnFault(2)}

\* The pipelines the handlers build.
\* The EXPIRE sent whatever the refresh flag says.
pipe_get_always_expire(key, rf, secs) == <<Get(key), Expire(key, secs)>>

pipe_get(key, rf, secs) ==
    <<Get(key)>> \o (IF rf THEN <<Expire(key, secs)>> ELSE <<>>)

\* The write sent ahead of the fetch.
pipe_set_write_first(key, text, secs) ==
    <<SetEx(key, text, secs), [Get(key) EXCEPT !.ignore = FALSE]>>

\* The expiry written a second short of the configured TTL.
pipe_set_short(key, text, secs) ==
    <<Get(key), SetEx(key, text, IF secs > 1 THEN secs - 1 ELSE secs)>>

pipe_set(key, text, secs) == <<Get(key), SetEx(key, text, secs)>>

\* The DEL left out of the batch.
pipe_remove_no_del(key) == <<Get(key)>>

pipe_remove(key) == <<Get(key), Del(key)>>

\* let res: (Option<String>,) = pipe.query(..)?; match res.0 { .. }
\* An error reply of any command fails the query; the replies of the
\* commands marked .ignore() are dropped; res.0 is the first reply left.
Kept(cmds) == {i \in 1..Len(cmds) : ~cmds[i].ignore}

First(S) == CHOOSE i \in S : \A j \in S : i <= j

\* A nil reply taken for text to decode.
match_nil_as_text(r) == Err("Deser", r.text)

\* Text that does not decode taken for absence.
match_undecodable_as_none(r) ==
    IF r.kind = "nil"
    THEN Ok(None)
    ELSE LET v == from_str(r.text)
         IN  IF v.ok THEN Ok(v.value) ELSE Ok(None)

match(r) ==
    IF r.kind = "nil"
    THEN Ok(None)
    ELSE LET v == from_str(r.text)
         IN  IF v.ok THEN Ok(v.value) ELSE Err("Deser", r.text)

decode(cmds, replies) ==
    IF \E i \in 1..Len(replies) : replies[i].kind = "error"
    THEN Err("Redis", <<>>)
    ELSE match(replies[First(Kept(cmds))])

\* pipe.query(&mut *conn) and the match on its reply: the server's map
\* afterwards, the replies the server gave, the handler's result, and the
\* number of times the pipeline was sent.
Answer(cmds, r, res) ==
    [st |-> r.st, cmds |-> cmds, replies |-> r.replies, res |-> res, sent |-> 1]

\* The pipeline sent again after the connection failed.
query_retry(cmds, fault, st) ==
    IF fault.kind = "conn"
    THEN LET r == Run(cmds, Run(cmds, st, Min(fault.n, Len(cmds))).st, Len(cmds))
         IN  [Answer(cmds, r, decode(cmds, r.replies)) EXCEPT !.sent = 2]
    ELSE LET r == Run(cmds, st, Len(cmds))
         IN  Answer(cmds, r, decode(cmds, r.replies))

\* The fetched text decoded before the rest of the pipeline is sent, and
\* the rest not sent when it does not decode.
query_decode_first(cmds, fault, st) ==
    IF fault.kind = "conn"
    THEN Answer(cmds, Run(cmds, st, Min(fault.n, Len(cmds))), Err("Redis", <<>>))
    ELSE LET g == Run(cmds, st, 1)
             r == Run(cmds, st, Len(cmds))
         IN  IF decode(<<cmds[1]>>, g.replies).err = "Deser"
             THEN Answer(cmds, g, decode(<<cmds[1]>>, g.replies))
             ELSE Answer(cmds, r, decode(cmds, r.replies))

query(cmds, fault, st) ==
    IF fault.kind = "conn"
    THEN Answer(cmds, Run(cmds, st, Min(fault.n, Len(cmds))), Err("Redis", <<>>))
    ELSE LET r == Run(cmds, st, Len(cmds))
         IN  Answer(cmds, r, decode(cmds, r.replies))

\* A handler that returns before it sends anything.
Unsent(st, res) == [st |-> st, cmds |-> <<>>, replies |-> <<>>, res |-> res, sent |-> 0]

\* The refresh flag not looked at: no EXPIRE is ever sent.
get_outcome_no_refresh(key, fault, st, rf, secs) ==
    IF fault.kind = "pool"
    THEN Unsent(st, Err("Pool", <<>>))
    ELSE query(<<Get(generate_key(key))>>, fault, st)

get_outcome(key, fault, st, rf, secs) ==
    IF fault.kind = "pool"
    THEN Unsent(st, Err("Pool", <<>>))
    ELSE query(pipe_get(generate_key(key), rf, secs), fault, st)

\* The serialization error dropped: the batch goes out with whatever
\* text there is.
set_outcome_unchecked(key, val, fault, st, secs) ==
    IF fault.kind = "pool"
    THEN Unsent(st, Err("Pool", <<>>))
    ELSE query(<<Get(generate_key(key)),
                 SetEx(generate_key(key), to_string(val).text, secs)>>, fault, st)

set_outcome(key, val, fault, st, secs) ==
    IF fault.kind = "pool"
    THEN Unsent(st, Err("Pool", <<>>))
    ELSE LET t == to_string(val)
         IN  IF ~t.ok
             THEN Unsent(st, Err("Ser", <<>>))
             ELSE query(pipe_set(generate_key(key), t.text, secs), fault, st)

remove_outcome(key, fault, st) ==
    IF fault.kind = "pool"
    THEN Unsent(st, Err("Pool", <<>>))
    ELSE query(pipe_remove(generate_key(key)), fault, st)

\* ------------------------------------------------------------- book-keeping
\* Kept beside the server's map, from the caller's side of each call; it
\* never decides what a handler does.
\*   gone     why the key holds nothing: "never" written, "expired",
\*            "removed"; "here" while it holds something
\*   due      the seconds left of the TTL that was configured when the key
\*            was last armed (stored by cache_set, or read by cache_get
\*            with the refresh flag on)
\*   rearmed  a cache_get with the refresh flag on has read the entry
\*            since it was stored
NoAudit(why) == [gone |-> why, due |-> 0, rearmed |-> FALSE]

\* The server executed the whole batch of a call.
Executed(o) == o.cmds # <<>> /\ Len(o.replies) = Len(o.cmds)
Refused(o) == \E i \in 1..Len(o.replies) : o.replies[i].kind = "error"

AuditSet(a, o, secs) ==
    IF Executed(o) /\ ~Refused(o)
    THEN [gone |-> "here", due |-> secs, rearmed |-> FALSE]
    ELSE a

AuditRemove(a, o) ==
    IF Executed(o) /\ a.gone = "here" THEN NoAudit("removed") ELSE a

AuditGet(a, o, rf, secs) ==
    IF Executed(o) /\ rf /\ a.gone = "here"
    THEN IF secs = 0
         THEN [gone |-> "expired", due |-> 0, rearmed |-> TRUE]
         ELSE [gone |-> "here", due |-> secs, rearmed |-> TRUE]
    ELSE a

AuditTick(a) ==
    IF a.gone # "here" THEN a
    ELSE IF a.due <= 1 THEN [a EXCEPT !.gone = "expired", !.due = 0]
    ELSE [a EXCEPT !.due = @ - 1]

\* The record of a call: what was asked and what came back.
\*   val      the value given to a cache_set
\*   prior    the text the key held when the call began (<<>>: none)
\*   follows  for a cache_get: the cache_set or cache_remove that returned
\*            Ok on the same key just before it, with the value it stored
\*            or returned
\*   sent     the times the call sent its pipeline
\*   fault    what befell the call ("none", "pool", "conn")
\* val and prior are kept for the calls that did not fail in the pool or
\* on the connection.
Heard(res) == res.err \notin {"Pool", "Redis"}
Answered(res) == res.ok \/ res.err = "Deser"

NoCall == [op |-> "none", val |-> None]

Follows(op, key) ==
    IF op = "get" /\ last.key = key /\ last.res.ok
    THEN CASE last.op = "set" -> [op |-> "set", val |-> last.val]
           [] last.op = "remove" -> [op |-> "remove", val |-> last.res.val]
           [] OTHER -> NoCall
    ELSE NoCall

Record(op, key, val, res, num, flag) ==
    [op |-> op, key |-> key, val |-> IF Heard(res) THEN val ELSE None,
     res |-> res, num |-> num, flag |-> flag,
     prior |-> IF key \in Keys /\ Heard(res) THEN store[generate_key(key)].text ELSE <<>>,
     follows |-> Follows(op, key), sent |-> 0, fault |-> "none"]

\* The record of a call that went to the pool.
Sent(r, o, fault) == [r EXCEPT !.sent = o.sent, !.fault = fault.kind]

cache_get(key, fault) ==
    \E o \in {get_outcome(key, fault, store, refresh, seconds)}, k \in {generate_key(key)} :
        /\ store' = o.st
        /\ audit' = [audit EXCEPT ![k] = AuditGet(@, o, refresh, seconds)]
        /\ last' = Sent(Record("get", key, None, o.res, 0, FALSE), o, fault)
        /\ UNCHANGED <<seconds, refresh, configured, conns, calls>>

cache_set(key, val, fault) ==
    \E o \in {set_outcome(key, val, fault, store, seconds)}, k \in {generate_key(key)} :
        /\ store' = o.st
        /\ audit' = [audit EXCEPT ![k] = AuditSet(@, o, seconds)]
        /\ last' = Sent(Record("set", key, val, o.res, 0, FALSE), o, fault)
        /\ UNCHANGED <<seconds, refresh, configured, conns, calls>>

cache_remove(key, fault) ==
    \E o \in {remove_outcome(key, fault, store)}, k \in {generate_key(key)} :
        /\ store' = o.st
        /\ audit' = [audit EXCEPT ![k] = AuditRemove(@, o)]
        /\ last' = Sent(Record("remove", key, None, o.res, 0, FALSE), o, fault)
        /\ UNCHANGED <<seconds, refresh, configured, conns, calls>>

\* fn cache_lifespan(&self) -> Option<u64>: Some(self.seconds)
lifespan_result(secs) == secs

cache_lifespan ==
    /\ last' = Record("lifespan", 0, None, Ok(None), lifespan_result(seconds), FALSE)
    /\ UNCHANGED <<seconds, refresh, store, audit, configured, conns, calls>>

\* fn cache_set_lifespan(&mut self, seconds) -> Option<u64>: the field is
\* replaced, the old one returned; the server hears nothing.
\* The new TTL returned in place of the old one.
set_lifespan_returns_new(old, new, st) == [seconds |-> new, res |-> new, st |-> st]

\* The stored keys re-armed with the new TTL.
set_lifespan_rearms(old, new, st) ==
    [seconds |-> new, res |-> old,
     st |-> [k \in DOMAIN st |->
               IF Present(st[k]) /\ new > 0 THEN [st[k] EXCEPT !.ttl = new] ELSE st[k]]]

set_lifespan_outcome(old, new, st) == [seconds |-> new, res |-> old, st |-> st]

cache_set_lifespan(s) ==
    \E o \in {set_lifespan_outcome(seconds, s, store)} :
        /\ seconds' = o.seconds
        /\ store' = o.st
        /\ configured' = s
        /\ last' = Record("set_lifespan", 0, None, Ok(None), o.res, FALSE)
        /\ UNCHANGED <<refresh, audit, conns, calls>>

\* fn cache_set_refresh(&mut self, refresh) -> bool
set_refresh_outcome(old, new) == [refresh |-> new, res |-> old]

cache_set_refresh(b) ==
    \E o \in {set_refresh_outcome(refresh, b)} :
        /\ refresh' = o.refresh
        /\ last' = Record("set_refresh", 0, None, Ok(None), 0, o.res)
        /\ UNCHANGED <<seconds, store, audit, configured, conns, calls>>

\* A second passes on the server's clock.
Tick ==
    /\ store' = Expired(store)
    /\ audit' = [k \in NKeys |-> AuditTick(audit[k])]
    /\ last' = Record("tick", 0, None, Ok(None), 0, FALSE)
    /\ UNCHANGED <<seconds, refresh, configured, conns, calls>>

\* The keys the threads call on: they contend for one key.
Contended == {1}

\* A thread's call in flight.
\*   cmds, replies  the pipeline sent and the replies the server has given
\*   over           what the key held when the server executed the call's
\*                  write (SETEX, DEL or EXPIRE)
\*   res            the result of the thread's last call, once returned
\*   done           the calls the thread has made
\*   checkouts      the connections the call took from the pool
Idle == [pc |-> "idle", op |-> "none", cmds |-> <<>>, replies |-> <<>>,
         over |-> Nil, res |-> Ok(None), done |-> 0, checkouts |-> 0]

\* No call made yet on the adapter just built.
Unused ==
    [op |-> "build", key |-> 0, val |-> None, res |-> Ok(None), num |-> 0,
     flag |-> FALSE, prior |-> <<>>, follows |-> NoCall, sent |-> 0, fault |-> "none"]

\* RedisCache::new(prefix, seconds) with set_lifespan / set_refresh of the
\* builder, then build(): any TTL, either flag, and a prefix no one has
\* written under.
Built ==
    /\ seconds \in Seconds
    /\ refresh \in BOOLEAN
    /\ configured = seconds
    /\ store = [k \in NKeys |-> NoEntry]
    /\ audit = [k \in NKeys |-> NoAudit("never")]
    /\ last = Unused

\* The threads T that share the adapter, none of them in a call.
Callers(T) == conns = {} /\ calls = [t \in T |-> Idle]

\* AsyncRedisCache::new(prefix, seconds) .. build().await, with a server of
\* its own that holds nothing under the prefix.
async_build(secs, rf) ==
    [seconds |-> secs, refresh |-> rf, store |-> [k \in NKeys |-> NoEntry],
     res |-> Ok(None), num |-> 0, flag |-> FALSE]

\* No async adapter is looked at: one is built and left alone.
Init == Built /\ Callers(Threads) /\ mirror = async_build(0, FALSE)

Next ==
    \/ \E k \in Keys, f \in Faults : cache_get(k, f) /\ UNCHANGED mirror
    \/ \E k \in Keys, v \in Values, f \in Faults : cache_set(k, v, f) /\ UNCHANGED mirror
    \/ \E k \in Keys, f \in Faults : cache_remove(k, f) /\ UNCHANGED mirror
    \/ cache_lifespan /\ UNCHANGED mirror
    \/ \E s \in Seconds : cache_set_lifespan(s) /\ UNCHANGED mirror
    \/ \E b \in BOOLEAN : cache_set_refresh(b) /\ UNCHANGED mirror
    \/ Tick /\ UNCHANGED mirror

Spec == Init /\ [][Next]_vars

\* ------------------------------------------------------------- threads
\* Several threads call the shared adapter (&self: no mutator can run).
\* r2d2::Pool::builder().build(client): the default pool holds at most 10
\* connections.
PoolSize == 10

\* The pool hands out a connection while fewer than PoolSize are out.
\* A connection handed out whatever the number out.
available_always(cs) == TRUE

available(cs) == Cardinality(cs) < PoolSize

\* The pipeline a handler builds once it holds a connection; a cache_set
\* whose value does not serialize builds none.
build(op, key, val) ==
    CASE op = "get" -> [ok |-> TRUE, cmds |-> pipe_get(generate_key(key), refresh, seconds)]
      [] op = "set" ->
           LET t == to_string(val)
           IN  IF t.ok
               THEN [ok |-> TRUE, cmds |-> pipe_set(generate_key(key), t.text, seconds)]
               ELSE [ok |-> FALSE, cmds |-> <<>>]
      [] op = "remove" -> [ok |-> TRUE, cmds |-> pipe_remove(generate_key(key))]

Returned(c, res) ==
    [Idle EXCEPT !.res = res, !.done = c.done + 1, !.checkouts = c.checkouts]

\* let mut conn = self.pool.get()?: the thread holds a connection of the
\* pool until conn goes out of scope.
checkout(cs, t) == cs \cup {t}

\* The connection kept when the call returns.
release_leak(cs, t) == cs

\* conn goes out of scope, on return and on every ?: the connection is back
\* in the pool.
release(cs, t) == cs \ {t}

\* let mut conn = self.pool.get()?; the pipeline is built; a value that
\* does not serialize returns the error and drops the connection.
Start(t, op, key, val) ==
    /\ calls[t].pc = "idle"
    /\ calls[t].done < MaxCalls
    /\ available(conns)
    /\ \E b \in {build(op, key, val)} :
          IF b.ok
          THEN /\ conns' = checkout(conns, t)
               /\ calls' = [calls EXCEPT ![t] =
                              [Idle EXCEPT !.pc = "query", !.op = op, !.cmds = b.cmds,
                                           !.done = calls[t].done, !.checkouts = 1]]
          ELSE /\ conns' = release(checkout(conns, t), t)
               /\ calls' = [calls EXCEPT ![t] =
                              Returned([@ EXCEPT !.checkouts = 1], Err("Ser", <<>>))]
    /\ UNCHANGED <<seconds, refresh, store, audit, configured, last, mirror>>

\* self.pool.get() fails.
PoolFail(t) ==
    /\ calls[t].pc = "idle"
    /\ calls[t].done < MaxCalls
    /\ calls' = [calls EXCEPT ![t] = Returned([@ EXCEPT !.checkouts = 0], Err("Pool", <<>>))]
    /\ UNCHANGED <<seconds, refresh, store, audit, configured, last, conns, mirror>>

\* The server executes the next command of t's pipeline.  The pipeline is
\* not bracketed by MULTI/EXEC, so the server is free to execute a command
\* that arrived on another connection between two of its commands.
Serve(t) ==
    /\ calls[t].pc = "query"
    /\ Len(calls[t].replies) < Len(calls[t].cmds)
    /\ \E c \in {calls[t].cmds[Len(calls[t].replies) + 1]} :
       \E x \in {Exec(c, store)} :
          /\ store' = x.st
          /\ calls' = [calls EXCEPT
                          ![t].replies = Append(@, x.reply),
                          ![t].over = IF c.cmd = "GET" THEN @
                                      ELSE IF Present(store[c.key])
                                      THEN Bulk(store[c.key].text) ELSE Nil]
    /\ UNCHANGED <<seconds, refresh, audit, configured, last, conns, mirror>>

\* The connection fails during pipe.query: the error is returned and the
\* connection dropped.
ConnFail(t) ==
    /\ calls[t].pc = "query"
    /\ conns' = release(conns, t)
    /\ calls' = [calls EXCEPT ![t] = Returned(@, Err("Redis", <<>>))]
    /\ UNCHANGED <<seconds, refresh, store, audit, configured, last, mirror>>

\* pipe.query returns with every reply; the reply of the GET is decoded
\* and the connection goes back to the pool.
Return(t) ==
    /\ calls[t].pc = "query"
    /\ Len(calls[t].replies) = Len(calls[t].cmds)
    /\ conns' = release(conns, t)
    /\ calls' = [calls EXCEPT ![t] = Returned(@, decode(@.cmds, @.replies))]
    /\ UNCHANGED <<seconds, refresh, store, audit, configured, last, mirror>>

ConcNext ==
    \/ \E t \in Threads, op \in {"get", "set", "remove"}, k \in Contended, v \in Values :
          Start(t, op, k, v)
    \/ \E t \in Threads : PoolFail(t)
    \/ \E t \in Threads : Serve(t)
    \/ \E t \in Threads : ConnFail(t)
    \/ \E t \in Threads : Return(t)

ConcSpec == Init /\ [][ConcNext]_vars

\* ------------------------------------------------------------- pool
\* More threads than the pool has connections, each calling cache_get on
\* the contended key.  self.pool.get() hands out a free connection at once;
\* with none free the thread waits until one is free or until the pool's
\* connection timeout has passed (the builder leaves r2d2's default), and
\* then returns the pool error.  The pipeline of a thread that holds a
\* connection runs as one step here.
\* Threads beyond the pool's size.
Waiters == 1

PoolThreads == 1..(PoolSize + Waiters)

PoolGet(t) ==
    /\ calls[t].pc = "idle"
    /\ IF available(conns)
       THEN /\ conns' = checkout(conns, t)
            /\ calls' = [calls EXCEPT ![t] = [Idle EXCEPT !.pc = "query", !.op = "get",
                                                          !.checkouts = 1]]
       ELSE /\ conns' = conns
            /\ calls' = [calls EXCEPT ![t] = [Idle EXCEPT !.pc = "wait", !.op = "get"]]
    /\ UNCHANGED <<seconds, refresh, store, audit, configured, last, mirror>>

\* A connection came free while t waited.
PoolAcquire(t) ==
    /\ calls[t].pc = "wait"
    /\ available(conns)
    /\ conns' = checkout(conns, t)
    /\ calls' = [calls EXCEPT ![t] = [@ EXCEPT !.pc = "query", !.checkouts = 1]]
    /\ UNCHANGED <<seconds, refresh, store, audit, configured, last, mirror>>

\* The wait never given up.
PoolTimeout_never(t) ==
    /\ calls[t].pc = "gone"
    /\ UNCHANGED vars

\* The connection timeout passed while t waited: pool.get()? returns the
\* pool error.
PoolTimeout(t) ==
    /\ calls[t].pc = "wait"
    /\ \E k \in Contended :
       \E o \in {get_outcome(k, PoolFault, store, refresh, seconds)} :
          last' = Sent(Record("get", k, None, o.res, 0, FALSE), o, PoolFault)
    /\ calls' = [calls EXCEPT ![t] = Idle]
    /\ UNCHANGED <<seconds, refresh, store, audit, configured, conns, mirror>>

\* The rest of cache_get for a thread that holds a connection: the
\* pipeline is sent, the reply decoded, the connection dropped.
PoolFinish(t, fault) ==
    /\ calls[t].pc = "query"
    /\ \E k \in Contended :
       \E o \in {get_outcome(k, fault, store, refresh, seconds)} :
          /\ store' = o.st
          /\ audit' = [audit EXCEPT ![generate_key(k)] = AuditGet(@, o, refresh, seconds)]
          /\ last' = Sent(Record("get", k, None, o.res, 0, FALSE), o, fault)
    /\ conns' = release(conns, t)
    /\ calls' = [calls EXCEPT ![t] = Idle]
    /\ UNCHANGED <<seconds, refresh, configured, mirror>>

\* The adapter built with the longest TTL and either flag.
PoolInit ==
    /\ Built
    /\ seconds = MaxSeconds
    /\ Callers(PoolThreads)
    /\ mirror = async_build(0, FALSE)

PoolNext ==
    \/ \E t \in PoolThreads : PoolGet(t)
    \/ \E t \in PoolThreads : PoolAcquire(t)
    \/ \E t \in PoolThreads : PoolTimeout(t)
    \/ \E t \in PoolThreads, f \in {NoFault, ConnFault(0)} : PoolFinish(t, f)

PoolSpec == PoolInit /\ [][PoolNext]_vars

\* A thread that waits for a connection does not wait past the pool's
\* connection timeout.
PoolLive == PoolSpec /\ \A t \in PoolThreads : WF_vars(PoolTimeout(t))

\* ------------------------------------------------------------- async
\* AsyncRedisCache (mod async_redis): the same handlers over one
\* multiplexed connection, cloned for each call; there is no pool to fail.
AsyncFaults == Faults \ {PoolFault}

async_pipe_get(key, rf, secs) ==
    <<Get(key)>> \o (IF rf THEN <<Expire(key, secs)>> ELSE <<>>)

async_pipe_set(key, text, secs) == <<Get(key), SetEx(key, text, secs)>>

async_pipe_remove(key) == <<Get(key), Del(key)>>

async_match(r) ==
    IF r.kind = "nil"
    THEN Ok(None)
    ELSE LET v == from_str(r.text)
         IN  IF v.ok THEN Ok(v.value) ELSE Err("Deser", r.text)

\* pipe.query_async(&mut conn).await? and the match on its reply.
query_async(cmds, fault, st) ==
    IF fault.kind = "conn"
    THEN Answer(cmds, Run(cmds, st, Min(fault.n, Len(cmds))), Err("Redis", <<>>))
    ELSE LET r == Run(cmds, st, Len(cmds))
         IN  Answer(cmds, r,
                    IF \E i \in 1..Len(r.replies) : r.replies[i].kind = "error"
                    THEN Err("Redis", <<>>)
                    ELSE async_match(r.replies[First(Kept(cmds))]))

\* The EXPIRE armed with a TTL one second long whatever is configured.
async_get_outcome_fixed_ttl(key, fault, st, rf, secs) ==
    query_async(async_pipe_get(generate_key(key), rf, Min(secs, 1)), fault, st)

async_get_outcome(key, fault, st, rf, secs) ==
    query_async(async_pipe_get(generate_key(key), rf, secs), fault, st)

async_set_outcome(key, val, fault, st, secs) ==
    LET t == to_string(val)
    IN  IF ~t.ok
        THEN Unsent(st, Err("Ser", <<>>))
        ELSE query_async(async_pipe_set(generate_key(key), t.text, secs), fault, st)

async_remove_outcome(key, fault, st) ==
    query_async(async_pipe_remove(generate_key(key)), fault, st)

\* What a call leaves of the async adapter: its server and its result.
Mirrored(o) == [mirror EXCEPT !.store = o.st, !.res = o.res, !.num = 0, !.flag = FALSE]

async_cache_get(key, fault) ==
    \E o \in {async_get_outcome(key, fault, mirror.store, mirror.refresh, mirror.seconds)} :
        mirror' = Mirrored(o)

async_cache_set(key, val, fault) ==
    \E o \in {async_set_outcome(key, val, fault, mirror.store, mirror.seconds)} :
        mirror' = Mirrored(o)

async_cache_remove(key, fault) ==
    \E o \in {async_remove_outcome(key, fault, mirror.store)} :
        mirror' = Mirrored(o)

async_cache_lifespan ==
    mirror' = [mirror EXCEPT !.res = Ok(None), !.num = mirror.seconds, !.flag = FALSE]

async_cache_set_lifespan(s) ==
    mirror' = [mirror EXCEPT !.seconds = s, !.res = Ok(None), !.num = mirror.seconds,
                             !.flag = FALSE]

async_cache_set_refresh(b) ==
    mirror' = [mirror EXCEPT !.refresh = b, !.res = Ok(None), !.num = 0,
                             !.flag = mirror.refresh]

\* A second passes on the clock of the async adapter's server.
async_Tick ==
    mirror' = [mirror EXCEPT !.store = Expired(@), !.res = Ok(None), !.num = 0,
                             !.flag = FALSE]

\* The same call made on a RedisCache and on an AsyncRedisCache, each with
\* a server of its own, both built with the same TTL and flag.
PairNext ==
    \/ \E k \in Keys, f \in AsyncFaults : cache_get(k, f) /\ async_cache_get(k, f)
    \/ \E k \in Keys, v \in Values, f \in AsyncFaults :
          cache_set(k, v, f) /\ async_cache_set(k, v, f)
    \/ \E k \in Keys, f \in AsyncFaults : cache_remove(k, f) /\ async_cache_remove(k, f)
    \/ cache_lifespan /\ async_cache_lifespan
    \/ \E s \in Seconds : cache_set_lifespan(s) /\ async_cache_set_lifespan(s)
    \/ \E b \in BOOLEAN : cache_set_refresh(b) /\ async_cache_set_refresh(b)
    \/ Tick /\ async_Tick

\* Both adapters built with the same TTL and flag.
PairInit == Built /\ Callers(Threads) /\ mirror = async_build(seconds, refresh)

PairSpec == PairInit /\ [][PairNext]_vars

\* ------------------------------------------------------------- two caches
\* A second RedisCache on the same server, built with the prefix "t1" and
\* the same TTL and flag, beside the one built with "t". The first is
\* called with the keys 1 and 12, the second with 1 and 2: "t" then 12 and
\* "t1" then 2 are the same characters.
OtherPrefix == <<"t", "1">>
other_prefix == generate_prefix(OtherPrefix)
LongKeys == {1, 12}
KeyValues == {"n100", "n200"}
KeyFaults == {NoFault, ConnFault(2)}

\* Every key string either cache can name.
Entries ==
    NKeys \cup {format(prefix, k) : k \in LongKeys}
          \cup {format(other_prefix, k) : k \in Keys}

\* The record of a call on the second cache; it follows a set of the first
\* cache when that was the call before and named the same key string.
OtherRecord(op, key, val, res) ==
    [Record(op, key, val, res, 0, FALSE) EXCEPT
        !.prior = <<>>,
        !.follows = IF /\ last.op = "set"
                       /\ last.res.ok
                       /\ format(prefix, last.key) = format(other_prefix, key)
                    THEN [op |-> "set", val |-> last.val]
                    ELSE NoCall]

other_cache_get(key) ==
    \E o \in {query(pipe_get(format(other_prefix, key), refresh, seconds), NoFault, store)} :
        /\ store' = o.st
        /\ last' = Sent(OtherRecord("other_get", key, None, o.res), o, NoFault)
        /\ UNCHANGED <<seconds, refresh, configured, audit, conns, calls>>

other_cache_set(key, val) ==
    \E t \in {to_string(val)} :
      \E o \in {IF ~t.ok
                THEN Unsent(store, Err("Ser", <<>>))
                ELSE query(pipe_set(format(other_prefix, key), t.text, seconds),
                           NoFault, store)} :
        /\ store' = o.st
        /\ last' = Sent(OtherRecord("other_set", key, val, o.res), o, NoFault)
        /\ UNCHANGED <<seconds, refresh, configured, audit, conns, calls>>

other_cache_remove(key) ==
    \E o \in {query(pipe_remove(format(other_prefix, key)), NoFault, store)} :
        /\ store' = o.st
        /\ last' = Sent(OtherRecord("other_remove", key, None, o.res), o, NoFault)
        /\ UNCHANGED <<seconds, refresh, configured, audit, conns, calls>>

\* Both caches built, the server holding nothing under either prefix.
KeyInit ==
    /\ seconds \in Seconds
    /\ refresh \in BOOLEAN
    /\ configured = seconds
    /\ store = [k \in Entries |-> NoEntry]
    /\ audit = [k \in Entries |-> NoAudit("never")]
    /\ last = Unused
    /\ Callers(Threads)
    /\ mirror = async_build(0, FALSE)

KeyNext ==
    \/ \E k \in LongKeys, f \in KeyFaults : cache_get(k, f) /\ UNCHANGED mirror
    \/ \E k \in LongKeys, v \in KeyValues, f \in KeyFaults :
          cache_set(k, v, f) /\ UNCHANGED mirror
    \/ \E k \in LongKeys, f \in KeyFaults : cache_remove(k, f) /\ UNCHANGED mirror
    \/ \E k \in Keys : other_cache_get(k) /\ UNCHANGED mirror
    \/ \E k \in Keys, v \in KeyValues : other_cache_set(k, v) /\ UNCHANGED mirror
    \/ \E k \in Keys : other_cache_remove(k) /\ UNCHANGED mirror

KeySpec == KeyInit /\ [][KeyNext]_vars

\* ------------------------------------------------------------- claims
KeyOf(c) == generate_key(c.key)

\* serde_json writes the value and reads the same value back.
RoundTrips(v) ==
    /\ ValueJson(v).ok
    /\ JsonValue(ValueJson(v).text[1]) = [ok |-> TRUE, value |-> v]

\* What a text the server holds stands for: None when there is none, the
\* value when it decodes.
Decodable(text) == text = <<>> \/ from_str(text).ok
Held(text) == IF text = <<>> THEN None ELSE from_str(text).value

\* C1 as stated: for every key and value, a cache_set that returned Ok,
\* followed immediately by a cache_get of the same key that was answered,
\* makes that cache_get return Some(value).
C1_RoundTripEveryValue ==
    (last.op = "get" /\ last.follows.op = "set" /\ Answered(last.res))
        => last.res = Ok(last.follows.val)

\* C1 amended: the same, for every value that the envelope's serialization
\* reproduces (serialize, then deserialize, gives an equal value).
C1_RoundTrip ==
    (/\ last.op = "get"
     /\ last.follows.op = "set"
     /\ RoundTrips(last.follows.val)
     /\ Answered(last.res))
        => last.res = Ok(last.follows.val)

C1_Witness ==
    /\ last.op = "get"
    /\ last.follows = [op |-> "set", val |-> "n200"]
    /\ last.res = Ok("n200")

\* C2: a cache_get of a key never written under the prefix returns Ok(None)
\* whenever it is answered, and never a (de)serialization error, with the
\* refresh flag on or off and under any TTL.
C2_NeverWrittenIsNone ==
    (last.op = "get" /\ audit[KeyOf(last)].gone = "never")
        => /\ last.res.err \notin {"Deser", "Ser"}
           /\ last.res.ok => last.res.val = None
           /\ ~Present(store[KeyOf(last)])

C2_Witness ==
    /\ last.op = "get"
    /\ audit[KeyOf(last)].gone = "never"
    /\ last.res = Ok(None)
    /\ refresh
    /\ \E k \in NKeys : Present(store[k])

\* C3: an answered cache_set returns the value the key held before this
\* call's write: None on a fresh key, Some(prior value) on a key that held
\* one, never the value the call itself writes.
C3_SetReturnsPrior ==
    (last.op = "set" /\ Answered(last.res) /\ Decodable(last.prior))
        => last.res = Ok(Held(last.prior))

C3_Witness ==
    /\ last.op = "set"
    /\ last.val = "n200"
    /\ last.res = Ok("n100")
    /\ store[KeyOf(last)].text = to_string("n200").text

\* C4: an answered cache_remove returns the value the key held (None when
\* it held nothing) and leaves the key without a value, and a cache_get
\* that follows it on the same key returns None.
C4_RemoveReturnsAndDeletes ==
    /\ (last.op = "remove" /\ Answered(last.res))
          => /\ ~Present(store[KeyOf(last)])
             /\ Decodable(last.prior) => last.res = Ok(Held(last.prior))
    /\ (last.op = "get" /\ last.follows.op = "remove" /\ Answered(last.res))
          => last.res = Ok(None)

C4_Witness ==
    /\ last.op = "get"
    /\ last.follows = [op |-> "remove", val |-> "n100"]
    /\ last.res = Ok(None)

\* C5: once the TTL configured at the cache_set that stored a key has
\* elapsed, with no later cache_set of the key and no cache_get made with
\* the refresh flag on in between, an answered cache_get of the key returns
\* None.
C5_ExpiresAfterTtl ==
    (/\ last.op = "get"
     /\ audit[KeyOf(last)].gone = "expired"
     /\ ~audit[KeyOf(last)].rearmed
     /\ Answered(last.res))
        => last.res = Ok(None)

C5_Witness ==
    /\ last.op = "get"
    /\ ~refresh
    /\ audit[KeyOf(last)].gone = "expired"
    /\ ~audit[KeyOf(last)].rearmed
    /\ last.res = Ok(None)

\* C6: with the refresh flag on, an answered cache_get that finds the key
\* leaves it with exactly the configured TTL to live; a key read that way
\* lives exactly until the TTL configured at its last read has elapsed
\* since that read, however long ago it was stored.
C6_RefreshRearms ==
    /\ (last.op = "get" /\ refresh /\ Answered(last.res) /\ last.res # Ok(None))
          => store[KeyOf(last)].ttl = seconds
    /\ \A k \in NKeys :
          audit[k].rearmed =>
             /\ audit[k].gone = "here" => store[k].ttl = audit[k].due
             /\ audit[k].gone = "expired" => ~Present(store[k])

C6_Witness ==
    /\ last.op = "get"
    /\ refresh
    /\ last.res = Ok("n100")
    /\ last.follows = NoCall
    /\ audit[KeyOf(last)].rearmed
    /\ store[KeyOf(last)].ttl = seconds
    /\ seconds = MaxSeconds

\* A step that is a call on the key string k.
OnKey(c, k) == c.key \in Keys /\ generate_key(c.key) = k

\* C7 as stated, for the call made right after a cache_set_lifespan that
\* changed the TTL to another positive one: unless it is a cache_set or
\* cache_remove of the key (or time passing), it leaves every stored key
\* with the expiry it had, whatever the refresh flag.
C7_NeverRearmed ==
    [][(last.op = "set_lifespan" /\ last.num # seconds /\ seconds > 0)
          => \A k \in NKeys :
                (/\ Present(store[k])
                 /\ last'.op # "tick"
                 /\ ~(last'.op \in {"set", "remove"} /\ OnKey(last', k)))
                    => store'[k] = store[k]]_vars

\* C7 amended: cache_set_lifespan changes no stored key, and a stored key
\* keeps its expiry under every later call except a cache_set or
\* cache_remove of that key and, when the refresh flag is on, a cache_get
\* of that key, which re-arms it with the TTL configured at that time.
C7_OnlyRefreshRearms ==
    [][\A k \in NKeys :
          store'[k] # store[k]
             => \/ last'.op = "tick"
                \/ last'.op \in {"set", "remove"} /\ OnKey(last', k)
                \/ last'.op = "get" /\ OnKey(last', k) /\ refresh]_vars

C7_Witness ==
    /\ last.op = "get"
    /\ ~refresh
    /\ last.res = Ok("n100")
    /\ store[KeyOf(last)].ttl > seconds

\* C8: cache_set_lifespan returns the TTL in force before the call and
\* cache_set_refresh the flag in force before the call; cache_lifespan
\* returns the TTL most recently configured, which is the TTL in force.
C8_MutatorsReturnPrevious ==
    [][/\ last'.op = "set_lifespan" => (last'.num = seconds /\ seconds' = configured')
       /\ last'.op = "set_refresh" => last'.flag = refresh
       /\ last'.op = "lifespan" => (last'.num = configured /\ configured = seconds)]_vars

C8_Witness ==
    /\ last.op = "set_lifespan"
    /\ last.num = MaxSeconds
    /\ seconds = 1
    /\ configured = 1

\* C10: a cache_set of a value that cannot be serialized, once it holds a
\* connection, returns the serialization error and leaves the server's
\* map (values and expiries) as it was.
C10_SerializationErrorWritesNothing ==
    [][(last'.op = "set" /\ last'.val # None /\ ~to_string(last'.val).ok)
          => /\ last'.res = Err("Ser", <<>>)
             /\ store' = store]_vars

C10_Witness ==
    /\ last.op = "set"
    /\ last.val = "unser"
    /\ last.res = Err("Ser", <<>>)
    /\ store[KeyOf(last)] = [text |-> to_string("n100").text, ttl |-> 1]

\* C9: every cache_set and cache_remove batch is indivisible: what its
\* write replaces is what its fetch saw, so the prior value a call returns
\* is the value it overwrote or deleted (two concurrent cache_set calls on
\* a fresh key cannot both return None).
C9_BatchesIndivisible ==
    \A t \in Threads :
        (/\ calls[t].op \in {"set", "remove"}
         /\ Len(calls[t].replies) = 2
         /\ calls[t].replies[2].kind # "error")
            => calls[t].over = calls[t].replies[1]

\* C11: a cache_get of a key whose stored text is there but is not a
\* decodable envelope returns the deserialization error carrying that text:
\* neither None nor Some of a value.
C11_UndecodableIsError ==
    (last.op = "get" /\ last.prior # <<>> /\ ~from_str(last.prior).ok)
        => last.res = Err("Deser", last.prior)

C11_Witness ==
    /\ last.op = "get"
    /\ last.prior = to_string("nan").text
    /\ last.res = Err("Deser", to_string("nan").text)

\* C13: a cache_get, cache_set or cache_remove sends its pipeline at most
\* once; a failed pool checkout returns the pool error with nothing sent,
\* and a connection failure during the round trip returns the redis error
\* after that one sending.
C13_NoRetry ==
    (last.op \in {"get", "set", "remove"})
        => /\ last.sent <= 1
           /\ last.fault = "pool" => (last.res = Err("Pool", <<>>) /\ last.sent = 0)
           /\ (last.fault = "conn" /\ last.sent = 1) => last.res = Err("Redis", <<>>)
           /\ (last.fault = "conn" /\ last.sent = 0) => last.res = Err("Ser", <<>>)

C13_Witness ==
    /\ last.op = "set"
    /\ last.fault = "conn"
    /\ last.sent = 1
    /\ last.res = Err("Redis", <<>>)
    /\ Present(store[KeyOf(last)])
    /\ audit[KeyOf(last)].gone = "here"

\* C14: the adapter's TTL is at least one second in every state.
C14_TtlPositive == seconds > 0

\* C16: a cache_get changes neither which keys exist nor the text any key
\* holds; with the refresh flag off it changes nothing at all, and with the
\* flag on it changes at most the expiry of the requested key, and that
\* only when the key is there.
C16_GetFrame ==
    [][last'.op = "get"
          => \A k \in NKeys :
                /\ store'[k].text = store[k].text
                /\ Present(store'[k]) = Present(store[k])
                /\ ~refresh => store'[k] = store[k]
                /\ store'[k] # store[k] => (OnKey(last', k) /\ Present(store[k]))]_vars

\* C17: a cache_set that returned Ok leaves the key holding the envelope of
\* its value with exactly the configured TTL to live, whatever lifetime the
\* key had left, and what it returns is what the key held before the write.
C17_SetArmsConfiguredTtl ==
    (last.op = "set" /\ last.res.ok)
        => /\ store[KeyOf(last)] = [text |-> to_string(last.val).text, ttl |-> seconds]
           /\ last.res = Ok(Held(last.prior))

C17_Witness ==
    /\ last.op = "set"
    /\ last.val = "n200"
    /\ last.res = Ok("n100")
    /\ seconds = MaxSeconds
    /\ store[KeyOf(last)] = [text |-> to_string("n200").text, ttl |-> MaxSeconds]

\* C20: a call that returns the deserialization error has sent and executed
\* its whole batch: after cache_set the key holds the new value with the
\* configured TTL, after cache_remove the key is gone, and after a
\* cache_get with the refresh flag on the key has the configured TTL to
\* live.
C20_DeserAfterWholeBatch ==
    (last.res.err = "Deser")
        => /\ last.sent = 1
           /\ last.op = "set" =>
                 store[KeyOf(last)] = [text |-> to_string(last.val).text, ttl |-> seconds]
           /\ last.op = "remove" => ~Present(store[KeyOf(last)])
           /\ (last.op = "get" /\ refresh) => store[KeyOf(last)].ttl = seconds
           /\ (last.op = "get" /\ ~refresh) => store[KeyOf(last)].text = last.prior

C20_Witness ==
    /\ last.op = "set"
    /\ last.val = "n100"
    /\ last.res = Err("Deser", to_string("nan").text)
    /\ store[KeyOf(last)] = [text |-> to_string("n100").text, ttl |-> MaxSeconds]

\* C12: every cache_get, cache_set and cache_remove takes at most one
\* connection from the pool and has given it back when it returns, whether
\* it returns a value, a serialization error, a redis error or a
\* deserialization error: a thread between calls holds no connection, so
\* with no call in flight no connection is checked out.
C12_CheckoutScoped ==
    /\ \A t \in Threads :
          /\ calls[t].checkouts <= 1
          /\ calls[t].pc = "idle" => t \notin conns
          /\ calls[t].pc = "query" => (t \in conns /\ calls[t].checkouts = 1)
    /\ (\A t \in Threads : calls[t].pc = "idle") => conns = {}

C12_Witness ==
    /\ conns = {}
    /\ calls[1].pc = "idle"
    /\ calls[1].checkouts = 1
    /\ calls[1].res = Err("Deser", to_string("nan").text)
    /\ calls[2].pc = "idle"
    /\ calls[2].checkouts = 1
    /\ calls[2].res = Err("Ser", <<>>)

\* C15: after every sequence of calls made one at a time on a RedisCache
\* and on an AsyncRedisCache built alike, the two have returned the same
\* result and their servers hold the same values with the same expiries.
C15_SameProtocol ==
    /\ mirror.store = store
    /\ mirror.seconds = seconds
    /\ mirror.refresh = refresh
    /\ mirror.res = last.res
    /\ mirror.num = last.num
    /\ mirror.flag = last.flag

C15_Witness ==
    /\ last.op = "get"
    /\ refresh
    /\ seconds = MaxSeconds
    /\ last.res = Ok("n100")
    /\ mirror.res = Ok("n100")
    /\ mirror.store[KeyOf(last)] = [text |-> to_string("n100").text, ttl |-> MaxSeconds]
    /\ audit[KeyOf(last)].rearmed

\* C18: each connection out of the pool is held by the one call that took
\* it and each call in flight past its checkout holds one, and no more than
\* PoolSize are out at once, with more threads calling than the pool has
\* connections.
C18_PoolBound ==
    /\ Cardinality(conns) <= PoolSize
    /\ \A t \in PoolThreads :
          /\ t \in conns <=> calls[t].pc = "query"
          /\ calls[t].checkouts = (IF calls[t].pc = "query" THEN 1 ELSE 0)

C18_Witness ==
    /\ Cardinality(conns) = PoolSize
    /\ \E t \in PoolThreads : calls[t].pc = "wait"

\* C19: no thread waits for a pooled connection forever: time and again it
\* is not waiting, having got a connection or returned the pool error.
C19_BoundedWait ==
    \A t \in PoolThreads : []<>(calls[t].pc # "wait")

C19_Witness ==
    /\ last.op = "get"
    /\ last.fault = "pool"
    /\ last.res = Err("Pool", <<>>)
    /\ Cardinality(conns) = PoolSize
    /\ \A t \in PoolThreads : calls[t].pc # "wait"

\* C21: a cache_get, cache_set or cache_remove of either cache touches one
\* entry of the server, the one whose key string is the cache's prefix
\* followed by the key's decimal form: every entry under another string
\* keeps its value and expiry, an answered call returns what that entry
\* held, a set that went through leaves its value there and a remove
\* leaves it empty. Two (prefix, key) pairs with the same characters are
\* thus one entry, and pairs with different characters are different ones.
CallerOf(c) == IF c.op \in {"get", "set", "remove"} THEN CallerPrefix ELSE OtherPrefix

C21_OneEntryByString ==
    [][LET e == generate_prefix(CallerOf(last')) \o Display(last'.key)
       IN  /\ e \in DOMAIN store
           /\ \A x \in DOMAIN store \ {e} : store'[x] = store[x]
           /\ last'.sent = 1 /\ Answered(last'.res) =>
                 /\ last'.res = IF Present(store[e])
                                THEN match(Bulk(store[e].text))
                                ELSE Ok(None)
                 /\ last'.op \in {"set", "other_set"} =>
                       store'[e] = [text |-> to_string(last'.val).text, ttl |-> seconds]
                 /\ last'.op \in {"remove", "other_remove"} => store'[e] = NoEntry
      ]_vars

\* The second cache reads with ("t1", 2) what the first has just stored
\* with ("t", 12), and no other entry holds anything.
C21_Witness ==
    /\ last.op = "other_get"
    /\ last.key = 2
    /\ last.follows = [op |-> "set", val |-> "n100"]
    /\ last.res = Ok("n100")
    /\ Present(store[generate_prefix(CallerPrefix) \o Display(12)])
    /\ \A x \in DOMAIN store :
          x # generate_prefix(CallerPrefix) \o Display(12) => store[x] = NoEntry

====
